---------------------------- MODULE Spec2Model ----------------------------
(***************************************************************************)
(* NEXAWEALTH: the monthly cycle engine (src/src/sim/engine.js) driven by  *)
(* the handlers of the App that imports it (src/unnamed/part_001), and the *)
(* spending panel of src/src/App.jsx with the expense resolver it calls.   *)
(*                                                                         *)
(* Number representation.  The engine computes in IEEE doubles; the model  *)
(* computes in fixed point.  Money is an integer number of mills           *)
(* (Scale = 1000 per dollar), multipliers and rates are percents, market   *)
(* returns are in units of 1e-4 (ReturnUnit per 1).  With the catalog      *)
(* values of the source every income, expense, contribution, payment and   *)
(* cash amount is exact in mills; only the monthly interest, the           *)
(* investment growth and the stress ratio are rounded (to the nearest      *)
(* mill, resp. 1e-4).                                                      *)
(***************************************************************************)
EXTENDS Integers, Sequences, FiniteSets, TLC

VARIABLES
  scenarioPresets,  \* engine.js scenarioPresets: the module-level table of profiles
  scenarioKey,      \* App state "nexawealth-scenario"
  decision,         \* App state "nexawealth-decision"
  simulation,       \* App state "nexawealth-sim": [scenarioKey, profile, state]
  projection,       \* the last projectFuture call: <<>> or <<[months, points, final]>>
  cycle,            \* the locals of the last runDecisionCycle call of handleRunCycle: <<>> or <<rec>>
  lifeStage,        \* App.jsx state "nexawealth-life"
  expensePlan,      \* App.jsx state "nexawealth-expenses": [quantities, priceTiers]
  expenseCatalog,   \* the engine's expenseCatalog: category -> sequence of items
  expenseBreakdown, \* App.jsx memo "expenses": <<>> or <<the breakdown of the last call>>
  marketExplorer,   \* App.jsx state marketExplorer (useState, lines 459)
  marketTrades,     \* per item key, the units bought and sold so far, and the calls of buy and sell
  lastReset         \* <<>>, or <<[ranCycles]>> while the state is the one handleReset has set

\* The spending panel of src/src/App.jsx
expenseVars == <<lifeStage, expensePlan, expenseCatalog, expenseBreakdown>>

\* The Market Explorer of src/src/App.jsx
marketVars == <<marketExplorer, marketTrades>>

vars == <<scenarioPresets, scenarioKey, decision, simulation, projection, cycle,
          lifeStage, expensePlan, expenseCatalog, expenseBreakdown,
          marketExplorer, marketTrades, lastReset>>

---------------------------------------------------------------------------
(* Units *)

\* mills per dollar
Scale == 10 * 100
\* a market return r is held as r * ReturnUnit
ReturnUnit == 100 * 100
\* a ratio q (cash / expenses, debt / 25000, the raw stress) is held as q * RatioUnit
RatioUnit == 100 * 100

Dollars(n) == n * Scale

---------------------------------------------------------------------------
(* Arithmetic helpers *)

Max(a, b) == IF a >= b THEN a ELSE b
Min(a, b) == IF a <= b THEN a ELSE b

\* engine.js clamp
clamp(value, min, max) == Min(Max(value, min), max)

\* a * b / c rounded to the nearest integer (half up), for c > 0 and b >= 0,
\* computed so that no intermediate exceeds the 32-bit range
MulDivRound(a, b, c) == (a \div c) * b + (((a % c) * b + (c \div 2)) \div c)

\* floor(a * RatioUnit / b) for b > 0, by long division in two steps of 100
Ratio(a, b) ==
  LET q  == a \div b
      r0 == a % b
      d1 == (r0 * 100) \div b
      r1 == (r0 * 100) % b
      d2 == (r1 * 100) \div b
  IN  q * RatioUnit + d1 * 100 + d2

\* NaN, the value of arithmetic on undefined (undefined * 1); every sum and
\* product with it is NaN again.  No amount of the model comes near it.
NaN == 0 - 2^30

\* Math.round of an amount in mills, to whole dollars
RoundDollars(x) == IF x = NaN THEN NaN ELSE (x + (Scale \div 2)) \div Scale

\* The element of a one-element set.  { F(x) : x \in {e} } computes e once,
\* however often F uses x.
TheOne(S) == CHOOSE x \in S : TRUE

\* obj[field] ?? default
Get(obj, field, default) == IF field \in DOMAIN obj THEN obj[field] ELSE default

\* The property names an object literal inherits from Object.prototype
ObjectPrototype ==
  { "constructor", "toString", "toLocaleString", "valueOf", "hasOwnProperty",
    "isPrototypeOf", "propertyIsEnumerable", "__proto__" }

\* TABLE[key] ?? TABLE[fallback].  TABLE is an object literal: a key it does
\* not define but inherits reads the inherited member, which is neither null
\* nor undefined, so ?? keeps it; it has none of a preset's fields.
Lookup(table, key, fallback) ==
  IF key \in DOMAIN table THEN table[key]
  ELSE IF key \in ObjectPrototype THEN [inherited |-> key]
  ELSE table[fallback]

---------------------------------------------------------------------------
(* Catalogs *)

\* baseReturn in units of 1/ReturnUnit
MARKET_PRESETS ==
  [ bull    |-> [label |-> "Bull market",   baseReturn |-> 120],
    neutral |-> [label |-> "Stable market", baseReturn |-> 40],
    bear    |-> [label |-> "Bear market",   baseReturn |-> -80] ]

\* variableMultiplier in percent
LIFESTYLE_PRESETS ==
  [ frugal   |-> [label |-> "Frugal",   variableMultiplier |-> 70,  stressRelief |-> 6],
    balanced |-> [label |-> "Balanced", variableMultiplier |-> 100, stressRelief |-> 2],
    comfort  |-> [label |-> "Comfort",  variableMultiplier |-> 125, stressRelief |-> -2],
    luxury   |-> [label |-> "Luxury",   variableMultiplier |-> 155, stressRelief |-> -6] ]

\* rates in percent
ALLOCATION_PRESETS ==
  [ balanced   |-> [label |-> "Balanced",     saveRate |-> 15, investRate |-> 10, debtRate |-> 8],
    debt_crush |-> [label |-> "Debt Crush",   saveRate |-> 8,  investRate |-> 6,  debtRate |-> 18],
    growth     |-> [label |-> "Growth",       saveRate |-> 10, investRate |-> 18, debtRate |-> 5],
    safe       |-> [label |-> "Safety First", saveRate |-> 20, investRate |-> 6,  debtRate |-> 8] ]

\* riskMultiplier in percent
RISK_PRESETS ==
  [ conservative |-> [label |-> "Conservative", riskMultiplier |-> 70],
    moderate     |-> [label |-> "Moderate",     riskMultiplier |-> 100],
    aggressive   |-> [label |-> "Aggressive",   riskMultiplier |-> 140] ]

\* impact: cashDelta in dollars, multipliers in percent; a field the source's
\* impact object does not carry is absent here too
LIFE_EVENTS ==
  << [key |-> "bonus",     label |-> "Surprise bonus",
      impact |-> [cashDelta |-> 800, stressDelta |-> -4]],
     [key |-> "medical",   label |-> "Medical emergency",
      impact |-> [cashDelta |-> -1200, stressDelta |-> 10]],
     [key |-> "job_loss",  label |-> "Temporary job loss",
      impact |-> [incomeMultiplier |-> 70, stressDelta |-> 12]],
     [key |-> "promotion", label |-> "Promotion unlocked",
      impact |-> [incomeMultiplier |-> 108, stressDelta |-> -5]],
     [key |-> "inflation", label |-> "Inflation spike",
      impact |-> [expenseMultiplier |-> 108, stressDelta |-> 6]] >>

\* amounts in dollars, debtRate in percent per year
ScenarioPresetsInit ==
  [ student      |-> [label |-> "College student", income |-> 1400, fixedExpenses |-> 600,
                      startingCash |-> 300, startingSavings |-> 500,
                      startingInvestments |-> 200, debtBalance |-> 6000, debtRate |-> 8],
    first_job    |-> [label |-> "First job professional", income |-> 5200, fixedExpenses |-> 2100,
                      startingCash |-> 1200, startingSavings |-> 3000,
                      startingInvestments |-> 2500, debtBalance |-> 12000, debtRate |-> 12],
    freelancer   |-> [label |-> "Freelancer", income |-> 4200, fixedExpenses |-> 1800,
                      startingCash |-> 900, startingSavings |-> 2600,
                      startingInvestments |-> 1400, debtBalance |-> 4000, debtRate |-> 10],
    family       |-> [label |-> "Family with dependents", income |-> 7800, fixedExpenses |-> 3200,
                      startingCash |-> 2000, startingSavings |-> 4500,
                      startingInvestments |-> 4000, debtBalance |-> 24000, debtRate |-> 11],
    entrepreneur |-> [label |-> "Entrepreneur", income |-> 6200, fixedExpenses |-> 2500,
                      startingCash |-> 1600, startingSavings |-> 2200,
                      startingInvestments |-> 3600, debtBalance |-> 18000, debtRate |-> 14],
    retiree      |-> [label |-> "Retired individual", income |-> 3800, fixedExpenses |-> 1900,
                      startingCash |-> 3800, startingSavings |-> 18000,
                      startingInvestments |-> 32000, debtBalance |-> 2000, debtRate |-> 5] ]

defaultDecision ==
  [ lifestyle |-> "balanced", allocation |-> "balanced", debtStrategy |-> "minimum",
    riskProfile |-> "moderate", marketMode |-> "neutral" ]

defaultState ==
  [ month |-> 1, cashOnHand |-> Dollars(1200), savings |-> Dollars(3000),
    investments |-> Dollars(2500), debtBalance |-> Dollars(12000),
    stressLevel |-> 35, creditScore |-> 690, history |-> << >> ]

---------------------------------------------------------------------------
(* engine.js: the cycle *)

STRESS_BASE == 60
STRESS_BUFFER_WEIGHT == 18
STRESS_DEBT_WEIGHT == 26
STRESS_DEBT_SCALE == 25000
STRESS_MIN == 5
STRESS_MAX == 95
CREDIT_MIN == 420
CREDIT_MAX == 850
CREDIT_START == 690
STRESS_START == 35
CREDIT_MISSED == -18
CREDIT_PAYING == 6
CREDIT_IDLE == 2
EVENT_CHANCE == 18
NOISE_SPAN == 100
MISSED_CASHFLOW == -250
VARIABLE_SHARE == 55
AGGRESSIVE_FACTOR == 15
MINIMUM_FACTOR == 8
DEBT_CEILING == 1000000000
HISTORY_CAP == 72
MONTHS_PER_YEAR == 12

\* computeStress({cashOnHand, debtBalance, expenses, lifestyle}); amounts in mills.
\* Math.round(raw) = floor(raw + 0.5)
computeStress(cashOnHand, debtBalance, expenses, lifestyle) ==
  LET safetyBuffer    == Ratio(cashOnHand, Max(expenses, Dollars(1)))
      debtLoad        == debtBalance \div ((STRESS_DEBT_SCALE * Scale) \div RatioUnit)
      lifestyleRelief == IF lifestyle \in DOMAIN LIFESTYLE_PRESETS
                         THEN LIFESTYLE_PRESETS[lifestyle].stressRelief ELSE 0
      raw == STRESS_BASE * RatioUnit - safetyBuffer * STRESS_BUFFER_WEIGHT
             + debtLoad * STRESS_DEBT_WEIGHT - lifestyleRelief * RatioUnit
  IN  clamp((raw + (RatioUnit \div 2)) \div RatioUnit, STRESS_MIN, STRESS_MAX)

\* updateCredit({debtPayment, debtBalance, missed}): the adjustment
updateCredit(debtPayment, debtBalance, missed) ==
  IF missed THEN CREDIT_MISSED
  ELSE IF debtPayment > 0 /\ debtBalance > 0 THEN CREDIT_PAYING
  ELSE CREDIT_IDLE

\* Mutant of NextCreditScore: the clamp forgotten
NextCreditScore_Unclamped(creditScore, adjustment) == creditScore + adjustment

\* clamp(state.creditScore + updateCredit(...), 420, 850)
NextCreditScore(creditScore, adjustment) ==
  clamp(creditScore + adjustment, CREDIT_MIN, CREDIT_MAX)

\* getLifeEvent with its two Math.random() draws made explicit: roll in
\* hundredths, pick = Math.floor(Math.random() * LIFE_EVENTS.length).
\* << >> is null, <<e>> is the event e.
getLifeEvent(roll, pick) ==
  IF roll < EVENT_CHANCE THEN << LIFE_EVENTS[pick + 1] >> ELSE << >>

\* Mutant of CashDelta: the event's cashDelta is left out
CashDelta_DropsEvent(income, outflow, eventImpact) ==
  income - outflow

\* income - outflow + (eventImpact.cashDelta ?? 0)
CashDelta(income, outflow, eventImpact) ==
  income - outflow + Dollars(Get(eventImpact, "cashDelta", 0))

\* Mutant of NextInvestments: the contribution is added after the return
NextInvestments_ContributionAfterReturn(investments, investmentContribution, marketReturn) ==
  IF investments = NaN \/ marketReturn = NaN THEN NaN
  ELSE MulDivRound(investments, ReturnUnit + marketReturn, ReturnUnit) + investmentContribution

\* (state.investments + investmentContribution) * (1 + marketReturn)
NextInvestments(investments, investmentContribution, marketReturn) ==
  IF investments = NaN \/ marketReturn = NaN THEN NaN
  ELSE MulDivRound(investments + investmentContribution, ReturnUnit + marketReturn, ReturnUnit)

\* Mutant of DebtInterest: the annual rate charged every month
DebtInterest_Annual(debtBalance, debtRate) ==
  MulDivRound(debtBalance, debtRate, 100)

\* state.debtBalance * (scenario.debtRate / 12); debtRate in percent
DebtInterest(debtBalance, debtRate) ==
  MulDivRound(debtBalance, debtRate, 100 * MONTHS_PER_YEAR)

\* Mutant of NextDebt: no floor at 0
NextDebt_NoFloor(debtBalance, debtInterest, debtPayment) ==
  debtBalance + debtInterest - debtPayment

\* Mutant of NextDebt: the payment added to the balance
NextDebt_AddsPayment(debtBalance, debtInterest, debtPayment) ==
  debtBalance + debtInterest + debtPayment

\* clamp(state.debtBalance + debtInterest - debtPayment, 0, 1e9), in mills.
\* 1e9 dollars is compared in whole dollars.
NextDebt(debtBalance, debtInterest, debtPayment) ==
  LET raw == debtBalance + debtInterest - debtPayment
  IN  IF raw < 0 THEN 0
      ELSE IF raw \div Scale >= DEBT_CEILING THEN DEBT_CEILING * Scale
      ELSE raw

\* Mutant of NextHistory: slice(0, 72), which keeps the oldest
NextHistory_KeepsOldest(history, snapshot) ==
  LET all == Append(history, snapshot)
  IN  IF Len(all) <= HISTORY_CAP THEN all ELSE SubSeq(all, 1, HISTORY_CAP)

\* [...state.history, snapshot].slice(-72)
NextHistory(history, snapshot) ==
  LET all == Append(history, snapshot)
  IN  IF Len(all) <= HISTORY_CAP THEN all
      ELSE SubSeq(all, Len(all) - HISTORY_CAP + 1, Len(all))

\* Mutant of NetWorth: the debt added to the assets
NetWorth_AddsDebt(nextCash, nextSavings, nextInvestments, nextDebt) ==
  IF nextInvestments = NaN THEN NaN
  ELSE nextCash + nextSavings + nextInvestments + nextDebt

\* const netWorth = nextCash + nextSavings + nextInvestments - nextDebt
NetWorth(nextCash, nextSavings, nextInvestments, nextDebt) ==
  IF nextInvestments = NaN THEN NaN
  ELSE nextCash + nextSavings + nextInvestments - nextDebt

\* runDecisionCycle lines 197-256: every local of one cycle.  draw is the
\* cycle's randomness: roll and pick (getLifeEvent), noise = the market term
\* (Math.random() - 0.5) * 0.01 in units of 1/ReturnUnit.
CycleLocals(scenario, dec, state, draw) ==
  LET market     == Lookup(MARKET_PRESETS, dec.marketMode, "neutral")
      allocation == Lookup(ALLOCATION_PRESETS, dec.allocation, "balanced")
      lifestyle  == Lookup(LIFESTYLE_PRESETS, dec.lifestyle, "balanced")
      risk       == Lookup(RISK_PRESETS, dec.riskProfile, "moderate")
      event       == getLifeEvent(draw.roll, draw.pick)
      eventImpact == IF event # << >> THEN event[1].impact ELSE [none |-> 0]
      incomeMultiplier  == Get(eventImpact, "incomeMultiplier", 100)
      expenseMultiplier == Get(eventImpact, "expenseMultiplier", 100)
      income           == (Dollars(scenario.income) * incomeMultiplier) \div 100
      fixedExpenses    == (Dollars(scenario.fixedExpenses) * expenseMultiplier) \div 100
      variableExpenses == (scenario.fixedExpenses * VARIABLE_SHARE * lifestyle.variableMultiplier)
                            \div ((100 * 100) \div Scale)
      expenses         == fixedExpenses + variableExpenses
      baseDebtPayment  == MulDivRound(income, allocation.debtRate, 100)
      debtPayment      == IF dec.debtStrategy = "aggressive"
                          THEN (baseDebtPayment * AGGRESSIVE_FACTOR) \div 10
                          ELSE (baseDebtPayment * MINIMUM_FACTOR) \div 10
      savingsContribution    == MulDivRound(income, allocation.saveRate, 100)
      investmentContribution == MulDivRound(income, allocation.investRate, 100)
      marketReturn == IF "baseReturn" \in DOMAIN market /\ "riskMultiplier" \in DOMAIN risk
                      THEN (market.baseReturn * risk.riskMultiplier) \div 100 + draw.noise
                      ELSE NaN
      debtInterest == DebtInterest(state.debtBalance, scenario.debtRate)
      outflow      == expenses + debtPayment + savingsContribution + investmentContribution
      cashDelta    == CashDelta(income, outflow, eventImpact)
      missedPayment == cashDelta < Dollars(MISSED_CASHFLOW)
      nextCash        == state.cashOnHand + cashDelta
      nextSavings     == state.savings + savingsContribution
      nextInvestments == NextInvestments(state.investments, investmentContribution, marketReturn)
      nextDebt        == NextDebt(state.debtBalance, debtInterest, debtPayment)
      netWorth    == NetWorth(nextCash, nextSavings, nextInvestments, nextDebt)
      stressLevel == computeStress(nextCash, nextDebt, expenses, dec.lifestyle)
      adjustment  == updateCredit(debtPayment, nextDebt, missedPayment)
      creditScore == NextCreditScore(state.creditScore, adjustment)
      snapshot ==
        [ month |-> state.month,
          netWorth |-> RoundDollars(netWorth),
          cashOnHand |-> RoundDollars(nextCash),
          savings |-> RoundDollars(nextSavings),
          investments |-> RoundDollars(nextInvestments),
          debtBalance |-> RoundDollars(nextDebt),
          stressLevel |-> stressLevel,
          creditScore |-> creditScore,
          expenses |-> RoundDollars(expenses),
          income |-> RoundDollars(income),
          marketReturn |-> marketReturn,
          decision |-> dec,
          event |-> IF event # << >> THEN event[1].label ELSE "Quiet month" ]
  IN  [ event |-> event, income |-> income, expenses |-> expenses,
        debtPayment |-> debtPayment, savingsContribution |-> savingsContribution,
        investmentContribution |-> investmentContribution,
        marketReturn |-> marketReturn, debtInterest |-> debtInterest,
        outflow |-> outflow, cashDelta |-> cashDelta, missedPayment |-> missedPayment,
        nextCash |-> nextCash, nextSavings |-> nextSavings,
        nextInvestments |-> nextInvestments, nextDebt |-> nextDebt,
        netWorth |-> netWorth, stressLevel |-> stressLevel,
        adjustment |-> adjustment, creditScore |-> creditScore,
        snapshot |-> snapshot ]

\* Mutant of CycleResult: month: state.month, the increment forgotten
CycleResult_KeepsMonth(state, L) ==
  [ month |-> state.month,
    cashOnHand |-> L.nextCash,
    savings |-> L.nextSavings,
    investments |-> L.nextInvestments,
    debtBalance |-> L.nextDebt,
    stressLevel |-> L.stressLevel,
    creditScore |-> L.creditScore,
    history |-> NextHistory(state.history, L.snapshot) ]

\* Mutant of CycleResult: a negative cash balance is borrowed
CycleResult_BorrowsShortfall(state, L) ==
  [ month |-> state.month + 1,
    cashOnHand |-> L.nextCash,
    savings |-> L.nextSavings,
    investments |-> L.nextInvestments,
    debtBalance |-> IF L.nextCash < 0 THEN L.nextDebt - L.nextCash ELSE L.nextDebt,
    stressLevel |-> L.stressLevel,
    creditScore |-> L.creditScore,
    history |-> NextHistory(state.history, L.snapshot) ]

\* Mutant of CycleResult: month: state.month + 2
CycleResult_SkipsMonth(state, L) ==
  [ month |-> state.month + 2,
    cashOnHand |-> L.nextCash,
    savings |-> L.nextSavings,
    investments |-> L.nextInvestments,
    debtBalance |-> L.nextDebt,
    stressLevel |-> L.stressLevel,
    creditScore |-> L.creditScore,
    history |-> NextHistory(state.history, L.snapshot) ]

\* runDecisionCycle lines 258-269: the returned object
CycleResult(state, L) ==
  [ month |-> state.month + 1,
    cashOnHand |-> L.nextCash,
    savings |-> L.nextSavings,
    investments |-> L.nextInvestments,
    debtBalance |-> L.nextDebt,
    stressLevel |-> L.stressLevel,
    creditScore |-> L.creditScore,
    history |-> NextHistory(state.history, L.snapshot) ]

\* Mutant of runDecisionCycle: state.history.push(snapshot) in place of the copy
runDecisionCycle_PushesHistory(scenario, dec, state, draw) ==
  TheOne({ [ next |-> CycleResult(state, L),
             scenario |-> scenario,
             decision |-> dec,
             state |-> [state EXCEPT !.history = Append(@, L.snapshot)],
             locals |-> L ] : L \in {CycleLocals(scenario, dec, state, draw)} })

\* Mutant of runDecisionCycle: scenario.income *= incomeMultiplier in place
runDecisionCycle_ScalesProfile(scenario, dec, state, draw) ==
  TheOne({ [ next |-> CycleResult(state, L),
             scenario |-> [scenario EXCEPT !.income = L.income \div Scale],
             decision |-> dec,
             state |-> state,
             locals |-> L ] : L \in {CycleLocals(scenario, dec, state, draw)} })

\* runDecisionCycle({scenario, decision, state}).  The arguments are passed by
\* reference: besides the returned object (next) the result carries the
\* argument objects as the call leaves them (the source assigns to neither)
\* and the locals.
runDecisionCycle(scenario, dec, state, draw) ==
  TheOne({ [ next |-> CycleResult(state, L),
             scenario |-> scenario,
             decision |-> dec,
             state |-> state,
             locals |-> L ] : L \in {CycleLocals(scenario, dec, state, draw)} })

\* hydrateScenario(key)
hydrateScenario(presets, key) ==
  LET scenario == Lookup(presets, key, "first_job")
  IN  [ scenarioKey |-> key,
        profile |-> scenario,
        state |-> [ month |-> 1,
                    cashOnHand |-> Dollars(scenario.startingCash),
                    savings |-> Dollars(scenario.startingSavings),
                    investments |-> Dollars(scenario.startingInvestments),
                    debtBalance |-> Dollars(scenario.debtBalance),
                    stressLevel |-> STRESS_START,
                    creditScore |-> CREDIT_START,
                    history |-> << >> ] ]

---------------------------------------------------------------------------
(* engine.js: the projection *)

\* Mutant of ProjectionPoint: month: state.month + i + 1
ProjectionPoint_OneBased(month, latest) ==
  [ month |-> month + 1, netWorth |-> latest.netWorth,
    debtBalance |-> latest.debtBalance, investments |-> latest.investments ]

\* One point of projectFuture, read from the snapshot the cycle just appended
ProjectionPoint(month, latest) ==
  [ month |-> month, netWorth |-> latest.netWorth,
    debtBalance |-> latest.debtBalance, investments |-> latest.investments ]

\* One iteration of the for loop of projectFuture.  P is the loop's state:
\* the caller's argument objects (scenario, decision, state) as the calls so
\* far have left them, projectionState and points.  draws[i + 1] is the
\* randomness of iteration i.  The copy {...state} made before the loop is
\* shallow: it shares state.history with the caller, so what the first call
\* leaves in its state argument's history is what the caller's state holds.
\* r is the result of the iteration's runDecisionCycle call.
ProjectStep(P, i, r) ==
  [ scenario |-> r.scenario,
    decision |-> r.decision,
    state |-> IF i = 0 THEN [P.state EXCEPT !.history = r.state.history] ELSE P.state,
    projectionState |-> r.next,
    points |-> Append(P.points,
                      ProjectionPoint(P.state.month + i, r.next.history[Len(r.next.history)])) ]

\* The for loop of projectFuture from iteration i on; draws[i + 1] is the
\* randomness of iteration i
RECURSIVE ProjectLoop(_, _, _, _)
ProjectLoop(P, i, months, draws) ==
  IF i >= months THEN P
  ELSE TheOne({ ProjectLoop(Q, i + 1, months, draws) :
                  Q \in { ProjectStep(P, i, r) :
                            r \in { runDecisionCycle(P.scenario, P.decision,
                                                     P.projectionState, draws[i + 1]) } } })

\* projectFuture({scenario, decision, state}, months): points is the returned
\* array, projectionState the loop's last state, scenario/decision/state the
\* argument objects after the call
projectFuture(scenario, dec, state, months, draws) ==
  TheOne({ ProjectLoop(P, 0, months, draws) :
             P \in { [ scenario |-> scenario, decision |-> dec, state |-> state,
                       projectionState |-> state, points |-> << >> ] } })

---------------------------------------------------------------------------
(* The expense resolver.  src/src/App.jsx imports calculateExpenses and     *)
(* expenseCatalog from the engine, but src/src/sim/engine.js does not hold  *)
(* them: the resolver and its tables follow spec.md 4.1, the calls and the  *)
(* shape of the plan and of the catalog follow App.jsx.                     *)

\* The price tiers of the plan's selector (App.jsx lines 783-785)
Tiers == {"low", "typical", "high"}

\* Cost multiplier of a location tier, in percent
LOCATION_MULTIPLIERS == [low |-> 85, mid |-> 100, high |-> 125]

\* category -> items; priceRange = <<minimum, maximum>> in dollars
ExpenseCatalogInit ==
  [ Food      |-> << [key |-> "groceries", priceRange |-> <<60, 110>>],
                     [key |-> "dining",    priceRange |-> <<15, 46>>] >>,
    Transport |-> << [key |-> "transit",   priceRange |-> <<40, 95>>] >> ]

\* The items of every category
ItemsOf(catalog) ==
  UNION { { catalog[c][i] : i \in 1 .. Len(catalog[c]) } : c \in DOMAIN catalog }

ItemKeys == { item.key : item \in ItemsOf(ExpenseCatalogInit) }

\* low -> range minimum, high -> range maximum, typical -> midpoint; in mills
UnitPrice(item, tier) ==
  IF tier = "low" THEN Dollars(item.priceRange[1])
  ELSE IF tier = "high" THEN Dollars(item.priceRange[2])
  ELSE Dollars(item.priceRange[1] + item.priceRange[2]) \div 2

RECURSIVE SumOver(_, _)
SumOver(f, keys) ==
  IF keys = {} THEN 0
  ELSE LET k == CHOOSE x \in keys : TRUE IN f[k] + SumOver(f, keys \ {k})

\* What one call computes: the per-item costs of the items owned (an item
\* of quantity 0 is left out of the list), the variable total, the fixed
\* total (housing + utilities of the life stage) and the grand total
ExpenseBreakdown(stage, quantities, priceTiers, catalog) ==
  LET multiplier == Get(LOCATION_MULTIPLIERS, stage.location, 100)
      cost == [ item \in ItemsOf(catalog) |->
                  MulDivRound(UnitPrice(item, Get(priceTiers, item.key, "typical")),
                              multiplier, 100)
                    * Get(quantities, item.key, 0) ]
      owned == { item \in ItemsOf(catalog) : Get(quantities, item.key, 0) > 0 }
      variableTotal == SumOver(cost, ItemsOf(catalog))
      fixedTotal == Dollars(stage.fixedCosts.housing + stage.fixedCosts.utilities)
  IN  [ items |-> { [key |-> item.key, cost |-> cost[item]] : item \in owned },
        variableTotal |-> variableTotal,
        fixedTotal |-> fixedTotal,
        total |-> fixedTotal + variableTotal ]

\* Mutant of calculateExpenses: the location multiplier is written into the
\* catalog's price ranges (item.priceRange[n] *= multiplier)
calculateExpenses_AdjustsCatalog(stage, quantities, priceTiers, catalog) ==
  [ result |-> ExpenseBreakdown(stage, quantities, priceTiers, catalog),
    lifeStage |-> stage,
    quantities |-> quantities,
    priceTiers |-> priceTiers,
    catalog |->
      [ c \in DOMAIN catalog |->
          [ i \in 1 .. Len(catalog[c]) |->
              [ catalog[c][i] EXCEPT
                  !.priceRange =
                     << (@[1] * Get(LOCATION_MULTIPLIERS, stage.location, 100)) \div 100,
                        (@[2] * Get(LOCATION_MULTIPLIERS, stage.location, 100)) \div 100 >> ] ] ] ]

\* calculateExpenses({lifeStage, quantities, priceTiers}), reading the
\* catalog.  The arguments are passed by reference: besides the breakdown
\* (result) the value carries the argument objects and the catalog as the
\* call leaves them; the resolver is read-only and assigns to none.
calculateExpenses(stage, quantities, priceTiers, catalog) ==
  [ result |-> ExpenseBreakdown(stage, quantities, priceTiers, catalog),
    lifeStage |-> stage,
    quantities |-> quantities,
    priceTiers |-> priceTiers,
    catalog |-> catalog ]

\* The largest quantity the "+" button is pressed up to
MaxQuantity == 2

\* Life stages: one per location tier
LifeStageInputs ==
  { [ location |-> l, income |-> 5200,
      fixedCosts |-> [housing |-> 1500, utilities |-> 600] ] :
      l \in DOMAIN LOCATION_MULTIPLIERS }

\* A plan that names no item: every quantity reads as 0, every tier as typical
EmptyPlan == [quantities |-> << >>, priceTiers |-> << >>]

\* The spending panel at rest
ExpensesInit ==
  /\ lifeStage = CHOOSE stage \in LifeStageInputs : stage.location = "mid"
  /\ expensePlan = EmptyPlan
  /\ expenseCatalog = ExpenseCatalogInit
  /\ expenseBreakdown = << >>

\* The "-" and "+" buttons of an item (App.jsx lines 747-772)
AdjustQuantity ==
  \E key \in ItemKeys :
    \E newQty \in { Max(0, Get(expensePlan.quantities, key, 0) - 1),
                    Get(expensePlan.quantities, key, 0) + 1 } :
      /\ newQty <= MaxQuantity
      /\ expensePlan' = [expensePlan EXCEPT !.quantities = (key :> newQty) @@ @]
      /\ expenseBreakdown' = << >>
      /\ UNCHANGED <<lifeStage, expenseCatalog>>
      /\ UNCHANGED <<scenarioPresets, scenarioKey, decision, simulation, projection, cycle,
                       marketVars, lastReset>>

\* The tier selector of an item (App.jsx lines 774-786)
SetPriceTier ==
  \E key \in ItemKeys :
    \E tier \in Tiers :
      /\ expensePlan' = [expensePlan EXCEPT !.priceTiers = (key :> tier) @@ @]
      /\ expenseBreakdown' = << >>
      /\ UNCHANGED <<lifeStage, expenseCatalog>>
      /\ UNCHANGED <<scenarioPresets, scenarioKey, decision, simulation, projection, cycle,
                       marketVars, lastReset>>

\* useMemo(() => calculateExpenses({lifeStage, quantities, priceTiers}),
\* [lifeStage, expensePlan]) (App.jsx lines 476-479): computed when the plan
\* or the life stage has changed
ResolveExpenses ==
  /\ expenseBreakdown = << >>
  /\ \E r \in { calculateExpenses(lifeStage, expensePlan.quantities,
                                   expensePlan.priceTiers, expenseCatalog) } :
       /\ expenseBreakdown' = << r.result >>
       /\ lifeStage' = r.lifeStage
       /\ expensePlan' = [quantities |-> r.quantities, priceTiers |-> r.priceTiers]
       /\ expenseCatalog' = r.catalog
  /\ UNCHANGED <<scenarioPresets, scenarioKey, decision, simulation, projection, cycle,
                   marketVars, lastReset>>

---------------------------------------------------------------------------
(* src/src/App.jsx: the Market Explorer.  Cash and prices are integers of
   cents (both are kept to two decimals by toFixed(2)), trends and drifts are
   in units of 1/ReturnUnit, and a value of Math.random() is an integer r in
   0 .. RandomUnit - 1 standing for r / RandomUnit.  lastInsight is kept as
   the name of its message; the log, a text list for display, is left out. *)

CentsPerDollar == Scale \div 10
RandomUnit == ReturnUnit

MARKET_CASH == 8000
INITIAL_TREND_SPAN == 6
TREND_STEP_SPAN == 2
TREND_LIMIT == 12
PRICE_FLOOR == 60
PRICE_CEILING == 160

\* marketDefinitions: of its fourteen markets the wholesale market with its
\* rice sack (goods) and the real estate market with its city plot (an asset,
\* the dearest item of the catalog), in the order of the source; volatility in
\* percent
marketDefinitions ==
  << [ key |-> "wholesale",
       items |-> << [key |-> "rice_bulk", base |-> 22, volatility |-> 6, type |-> "goods"] >> ],
     [ key |-> "real_estate",
       items |-> << [key |-> "city_plot", base |-> 520, volatility |-> 6, type |-> "asset"] >> ] >>

MarketKeys == { marketDefinitions[i].key : i \in DOMAIN marketDefinitions }

\* marketDefinitionMap[marketKey]
marketDefinitionMap(marketKey) ==
  CHOOSE market \in { marketDefinitions[i] : i \in DOMAIN marketDefinitions } :
    market.key = marketKey

\* The keys of the items of a market
MarketItemKeys(marketKey) ==
  LET items == marketDefinitionMap(marketKey).items
  IN  { items[i].key : i \in DOMAIN items }

\* Every item key of the catalog
AllMarketItemKeys == UNION { MarketItemKeys(marketKey) : marketKey \in MarketKeys }

\* getMarketItem(marketKey, itemKey)
getMarketItem(marketKey, itemKey) ==
  LET items == marketDefinitionMap(marketKey).items
  IN  CHOOSE item \in { items[i] : i \in DOMAIN items } : item.key = itemKey

\* (Math.random() - 0.5) * span for span in percent, in units of 1/ReturnUnit
Centered(r, span) == ((r - (RandomUnit \div 2)) * span) \div 100

\* Number((item.base * (1 + trend)).toFixed(2)), in cents
InitialPrice(base, trend) ==
  MulDivRound(base * CentsPerDollar, ReturnUnit + trend, ReturnUnit)

\* buildInitialMarketState(); rand[marketKey][itemKey] is the item's draw
buildInitialMarketState(rand) ==
  LET trendOf(marketKey, itemKey) == Centered(rand[marketKey][itemKey], INITIAL_TREND_SPAN)
  IN  [ day |-> 1,
        cash |-> MARKET_CASH * CentsPerDollar,
        marketKey |-> marketDefinitions[1].key,
        prices |-> [ marketKey \in MarketKeys |->
                     [ itemKey \in MarketItemKeys(marketKey) |->
                       InitialPrice(getMarketItem(marketKey, itemKey).base,
                                    trendOf(marketKey, itemKey)) ] ],
        trends |-> [ marketKey \in MarketKeys |->
                     [ itemKey \in MarketItemKeys(marketKey) |-> trendOf(marketKey, itemKey) ] ],
        inventory |-> << >>,
        holdings |-> << >>,
        quantities |-> << >>,
        lastInsight |-> "Markets are open" ]

\* Mutant of NextTrend: the trend is not clamped
NextTrend_Unclamped(trend, step) == trend + step

\* Math.max(-0.12, Math.min(0.12, trend + (Math.random() - 0.5) * 0.02))
NextTrend(trend, step) ==
  Max(0 - (TREND_LIMIT * (ReturnUnit \div 100)),
      Min(TREND_LIMIT * (ReturnUnit \div 100), trend + step))

\* Number(Math.max(item.base * 0.6, Math.min(item.base * 1.6,
\*                 prevPrice * (1 + drift + trend))).toFixed(2)), in cents
NextPrice(base, prevPrice, drift, trend) ==
  LET raw   == prevPrice * (ReturnUnit + drift + trend)
      floor == ((base * CentsPerDollar * PRICE_FLOOR) \div 100) * ReturnUnit
      ceil  == ((base * CentsPerDollar * PRICE_CEILING) \div 100) * ReturnUnit
  IN  (Max(floor, Min(ceil, raw)) + (ReturnUnit \div 2)) \div ReturnUnit

\* updateMarketState(state); rand[marketKey][itemKey] holds the item's two
\* draws: drift and step
updateMarketState(state, rand) ==
  LET item(marketKey, itemKey) == getMarketItem(marketKey, itemKey)
      drift(marketKey, itemKey) ==
        Centered(rand[marketKey][itemKey].drift, item(marketKey, itemKey).volatility)
      trend(marketKey, itemKey) ==
        NextTrend(state.trends[marketKey][itemKey],
                  Centered(rand[marketKey][itemKey].step, TREND_STEP_SPAN))
  IN  [ state EXCEPT
          !.day = state.day + 1,
          !.prices = [ marketKey \in MarketKeys |->
                       [ itemKey \in MarketItemKeys(marketKey) |->
                         NextPrice(item(marketKey, itemKey).base,
                                   state.prices[marketKey][itemKey],
                                   drift(marketKey, itemKey), trend(marketKey, itemKey)) ] ],
          !.trends = [ marketKey \in MarketKeys |->
                       [ itemKey \in MarketItemKeys(marketKey) |-> trend(marketKey, itemKey) ] ],
          !.lastInsight = "New day, new prices" ]

\* handleMarketSwitch(marketKey)
handleMarketSwitch(prev, marketKey) ==
  [ prev EXCEPT !.marketKey = marketKey, !.lastInsight = "Switched" ]

\* obj[key] || fallback, for a count
OrElse(obj, key, fallback) ==
  IF key \in DOMAIN obj /\ obj[key] # 0 THEN obj[key] ELSE fallback

\* Math.max(0, current + delta)
NextQuantity(current, delta) == Max(0, current + delta)

\* handleMarketQuantity(itemKey, delta)
handleMarketQuantity(prev, itemKey, delta) ==
  [ prev EXCEPT !.quantities =
      (itemKey :> NextQuantity(OrElse(prev.quantities, itemKey, 0), delta)) @@ @ ]

\* Mutant of InsufficientCash: the price of one unit is compared
InsufficientCash_OfOneUnit(qty, price, cash) == price > cash

\* cost > prev.cash, for cost = qty * price
InsufficientCash(qty, price, cash) == qty * price > cash

\* handleMarketBuy(itemKey)
handleMarketBuy(prev, itemKey) ==
  LET qty   == OrElse(prev.quantities, itemKey, 1)
      price == prev.prices[prev.marketKey][itemKey]
      cost  == qty * price
      item  == getMarketItem(prev.marketKey, itemKey)
  IN  IF InsufficientCash(qty, price, prev.cash)
      THEN [ prev EXCEPT !.lastInsight = "Not enough cash" ]
      ELSE [ prev EXCEPT
               !.cash = prev.cash - cost,
               !.holdings = IF item.type = "asset"
                            THEN (itemKey :> (OrElse(@, itemKey, 0) + qty)) @@ @ ELSE @,
               !.inventory = IF item.type = "asset"
                             THEN @ ELSE (itemKey :> (OrElse(@, itemKey, 0) + qty)) @@ @,
               !.lastInsight = "Bought" ]

\* Mutant of InsufficientStock: one unit in stock is enough
InsufficientStock_OfOneUnit(qty, available) == available < 1

\* qty > available
InsufficientStock(qty, available) == qty > available

\* handleMarketSell(itemKey)
handleMarketSell(prev, itemKey) ==
  LET qty   == OrElse(prev.quantities, itemKey, 1)
      price == prev.prices[prev.marketKey][itemKey]
      item  == getMarketItem(prev.marketKey, itemKey)
      available == IF item.type = "asset" THEN OrElse(prev.holdings, itemKey, 0)
                   ELSE OrElse(prev.inventory, itemKey, 0)
      revenue == qty * price
  IN  IF InsufficientStock(qty, available)
      THEN [ prev EXCEPT !.lastInsight = "You only have" ]
      ELSE [ prev EXCEPT
               !.cash = prev.cash + revenue,
               !.holdings = IF item.type = "asset"
                            THEN (itemKey :> (available - qty)) @@ @ ELSE @,
               !.inventory = IF item.type = "asset"
                             THEN @ ELSE (itemKey :> (available - qty)) @@ @,
               !.lastInsight = "Sold" ]

---------------------------------------------------------------------------
(* The Market Explorer panel: its handlers as actions *)

\* The units the model lets the quantity selectors of a session show in all
MaxSelect == 8
\* The calls of buy and sell the model follows in a trading session
MaxTrades == 2
\* The days of a trading session
MaxDay == 2

\* The ends of the range [0, 1) of Math.random()
RandomInputs == { 0, RandomUnit - 1 }

\* One draw for every item of every market
CommonRand(r) ==
  [ marketKey \in MarketKeys |-> [ itemKey \in MarketItemKeys(marketKey) |-> r ] ]

\* The draws of buildInitialMarketState
InitialRands == { CommonRand(r) : r \in RandomInputs }

\* The draws of one updateMarketState: drift and step at either end
DayRands ==
  { CommonRand([drift |-> d, step |-> s]) : d \in RandomInputs, s \in RandomInputs }

\* The draws of a day that push the prices on in the direction of the trend:
\* both at the lower end while the trend is negative, else both at the upper
TrendRands ==
  LET marketKey == marketDefinitions[1].key
      itemKey   == marketDefinitions[1].items[1].key
      r == IF marketExplorer.trends[marketKey][itemKey] < 0 THEN 0 ELSE RandomUnit - 1
  IN  { CommonRand([drift |-> r, step |-> r]) }

NoTrades ==
  [ bought |-> [ itemKey \in AllMarketItemKeys |-> 0 ],
    sold   |-> [ itemKey \in AllMarketItemKeys |-> 0 ],
    calls  |-> 0 ]

\* The units of an item the player has, as holdings or as inventory
UnitsOf(state, itemKey) ==
  OrElse(state.holdings, itemKey, 0) + OrElse(state.inventory, itemKey, 0)

\* The panel of a session that does not use it: every trend 0
MarketAtRest ==
  /\ marketExplorer = buildInitialMarketState(CommonRand(RandomUnit \div 2))
  /\ marketTrades = NoTrades

SessionUnchanged ==
  UNCHANGED <<scenarioPresets, scenarioKey, decision, simulation, projection, cycle,
              expenseVars, lastReset>>

\* The market selector (App.jsx line 956)
MarketSwitch ==
  \E marketKey \in MarketKeys :
    /\ marketExplorer' = handleMarketSwitch(marketExplorer, marketKey)
    /\ UNCHANGED marketTrades
    /\ SessionUnchanged

\* The "-" and "+" buttons of an item of the active market (App.jsx lines 996-998)
MarketQuantity ==
  \E itemKey \in MarketItemKeys(marketExplorer.marketKey) :
    \E delta \in { -1, 1 } :
      /\ \E next \in { handleMarketQuantity(marketExplorer, itemKey, delta) } :
           /\ SumOver(next.quantities, DOMAIN next.quantities) <= MaxSelect
           /\ marketExplorer' = next
      /\ UNCHANGED marketTrades
      /\ SessionUnchanged

\* The Buy button of an item of the active market (App.jsx line 999)
MarketBuy(maxCalls) ==
  /\ marketTrades.calls < maxCalls
  /\ \E itemKey \in MarketItemKeys(marketExplorer.marketKey) :
       \E next \in { handleMarketBuy(marketExplorer, itemKey) } :
         /\ marketExplorer' = next
         /\ marketTrades' =
              [ marketTrades EXCEPT
                  !.calls = @ + 1,
                  !.bought[itemKey] = @ + UnitsOf(next, itemKey) - UnitsOf(marketExplorer, itemKey) ]
  /\ SessionUnchanged

\* The Sell button of an item of the active market (App.jsx line 1000)
MarketSell(maxCalls) ==
  /\ marketTrades.calls < maxCalls
  /\ \E itemKey \in MarketItemKeys(marketExplorer.marketKey) :
       \E next \in { handleMarketSell(marketExplorer, itemKey) } :
         /\ marketExplorer' = next
         /\ marketTrades' =
              [ marketTrades EXCEPT
                  !.calls = @ + 1,
                  !.sold[itemKey] = @ + UnitsOf(marketExplorer, itemKey) - UnitsOf(next, itemKey) ]
  /\ SessionUnchanged

\* handleMarketNextDay with the draws of the day taken from rands
MarketNextDay(maxDay, rands) ==
  /\ marketExplorer.day < maxDay
  /\ \E rand \in rands : marketExplorer' = updateMarketState(marketExplorer, rand)
  /\ UNCHANGED marketTrades
  /\ SessionUnchanged

\* The App with the Market Explorer as useState builds it
InitMarket ==
  /\ scenarioPresets = ScenarioPresetsInit
  /\ scenarioKey = "first_job"
  /\ decision = defaultDecision
  /\ simulation = hydrateScenario(ScenarioPresetsInit, "first_job")
  /\ projection = << >>
  /\ cycle = << >>
  /\ ExpensesInit
  /\ lastReset = << >>
  /\ marketExplorer \in { buildInitialMarketState(rand) : rand \in InitialRands }
  /\ marketTrades = NoTrades

HandleMarketBuy == MarketBuy(MaxTrades)

HandleMarketSell == MarketSell(MaxTrades)

\* In a trading session the days pass before the first trade, each pushing
\* the prices on
HandleMarketNextDay ==
  /\ marketTrades.calls = 0
  /\ MarketNextDay(MaxDay, TrendRands)

\* A trading session
NextMarket ==
  \/ MarketSwitch
  \/ MarketQuantity
  \/ HandleMarketBuy
  \/ HandleMarketSell
  \/ HandleMarketNextDay

SpecMarket == InitMarket /\ [][NextMarket]_vars

\* The days of a long stay in the Market Explorer
MarketDays == 12
\* The days of a long stay whose draws are free; on the later days the draws
\* push the prices on in the direction of the trend
MarketFreeDays == 1
\* The calls of buy and sell during a long stay, at the default quantity
MaxDayTrades == 1

LongStayRands == IF marketExplorer.day <= MarketFreeDays THEN DayRands ELSE TrendRands

LongStayNextDay == MarketNextDay(MarketDays, LongStayRands)

LongStayBuy == MarketBuy(MaxDayTrades)

LongStaySell == MarketSell(MaxDayTrades)

\* A long stay: many days, a trade now and then
NextMarketDays ==
  \/ LongStayNextDay
  \/ MarketSwitch
  \/ LongStayBuy
  \/ LongStaySell

SpecMarketDays == InitMarket /\ [][NextMarketDays]_vars

---------------------------------------------------------------------------
(* Inputs *)

\* The months of a life the model runs (runDecisionCycle itself has no limit)
MaxMonth == 2
\* The longest projection the model asks for (the App asks for 12 and 60)
MaxPeriods == 2

ScenarioKeys == DOMAIN ScenarioPresetsInit

\* Mutant of NoiseInputs: (Math.random() - 0.5) * 0.1
NoiseInputs_Wide == { -((10 * NOISE_SPAN) \div 2), ((10 * NOISE_SPAN) \div 2) - 1 }

\* (Math.random() - 0.5) * 0.01 lies in [-0.005, 0.005): its two ends
NoiseInputs == { -(NOISE_SPAN \div 2), (NOISE_SPAN \div 2) - 1 }

\* The draws of one cycle: no event (roll = 0.18, the first value that is not
\* below the chance), or an event (roll just below) and its index
DrawsOver(noises) ==
  { [roll |-> EVENT_CHANCE, pick |-> 0, noise |-> n] : n \in noises }
  \cup { [roll |-> EVENT_CHANCE - 1, pick |-> k, noise |-> n] :
           k \in 0 .. (Len(LIFE_EVENTS) - 1), n \in noises }

\* A cycle with no life event and no market noise
QuietDraw == [roll |-> EVENT_CHANCE, pick |-> 0, noise |-> 0]

DrawInputs == DrawsOver(NoiseInputs) \cup {QuietDraw}

\* The values the decision buttons of the session set (part_001 lines 322-366)
DecisionInputs ==
  [ lifestyle |-> {"balanced", "luxury"},
    allocation |-> {"balanced"},
    debtStrategy |-> {"minimum", "aggressive"},
    riskProfile |-> {"moderate"},
    marketMode |-> {"neutral"} ]

---------------------------------------------------------------------------
(* App (part_001): state and handlers *)

\* scenarioPresets[scenarioKey] ?? scenarioPresets.first_job: the key of the
\* profile object the App passes to the engine
ActiveKey == IF scenarioKey \in DOMAIN scenarioPresets THEN scenarioKey ELSE "first_job"

\* What the model keeps of a runDecisionCycle call made by handleRunCycle
CycleRecord(scenario, dec, state, draw, r) ==
  [ scenario |-> scenario, decision |-> dec, draw |-> draw,
    before |-> [ month |-> state.month, cashOnHand |-> state.cashOnHand,
                 savings |-> state.savings, investments |-> state.investments,
                 debtBalance |-> state.debtBalance, stressLevel |-> state.stressLevel,
                 creditScore |-> state.creditScore ],
    locals |-> [ f \in (DOMAIN r.locals) \ {"snapshot"} |-> r.locals[f] ],
    keys |-> DOMAIN r.next ]

\* The App as constructed with nothing persisted
Init ==
  /\ scenarioPresets = ScenarioPresetsInit
  /\ scenarioKey = "first_job"
  /\ decision = defaultDecision
  /\ simulation = hydrateScenario(ScenarioPresetsInit, "first_job")
  /\ projection = << >>
  /\ cycle = << >>
  /\ ExpensesInit
  /\ MarketAtRest
  /\ lastReset = << >>

\* applyScenario(key)
ApplyScenario ==
  \E key \in ScenarioKeys :
    /\ scenarioKey' = key
    /\ simulation' = hydrateScenario(scenarioPresets, key)
    /\ projection' = << >>
    /\ cycle' = << >>
    /\ lastReset' = << >>
    /\ UNCHANGED <<scenarioPresets, decision>>
    /\ UNCHANGED <<expenseVars, marketVars>>

\* setDecision({...decision, [field]: value})
SetDecision ==
  \E field \in DOMAIN DecisionInputs :
    \E value \in DecisionInputs[field] :
      /\ decision' = [decision EXCEPT ![field] = value]
      /\ projection' = << >>
      /\ UNCHANGED <<scenarioPresets, scenarioKey, simulation, cycle, lastReset>>
      /\ UNCHANGED <<expenseVars, marketVars>>

\* handleRunCycle with the cycle's randomness taken from draws
RunCycleWith(draws) ==
  \E draw \in draws :
    \E scenario \in { scenarioPresets[ActiveKey] } :
      \E r \in { runDecisionCycle(scenario, decision, simulation.state, draw) } :
        /\ simulation' = [simulation EXCEPT !.state = r.next]
        /\ scenarioPresets' = [scenarioPresets EXCEPT ![ActiveKey] = r.scenario]
        /\ decision' = r.decision
        /\ cycle' = << CycleRecord(scenario, decision, simulation.state, draw, r) >>
        /\ projection' = << >>
        /\ lastReset' = << >>
        /\ UNCHANGED scenarioKey
        /\ UNCHANGED <<expenseVars, marketVars>>

\* handleRunCycle
HandleRunCycle ==
  /\ simulation.state.month < MaxMonth
  /\ RunCycleWith(DrawInputs)

\* Mutant of HandleReset: the reset keeps the credit score and the history
HandleReset_KeepsRecord ==
  /\ simulation' = [ hydrateScenario(scenarioPresets, scenarioKey) EXCEPT
                       !.state.creditScore = simulation.state.creditScore,
                       !.state.history = simulation.state.history ]
  /\ projection' = << >>
  /\ cycle' = << >>
  /\ lastReset' = << [ranCycles |-> simulation.state.month > 1] >>
  /\ UNCHANGED <<scenarioPresets, scenarioKey, decision>>
  /\ UNCHANGED <<expenseVars, marketVars>>

\* handleReset
HandleReset ==
  /\ simulation' = hydrateScenario(scenarioPresets, scenarioKey)
  /\ projection' = << >>
  /\ cycle' = << >>
  /\ lastReset' = << [ranCycles |-> simulation.state.month > 1] >>
  /\ UNCHANGED <<scenarioPresets, scenarioKey, decision>>
  /\ UNCHANGED <<expenseVars, marketVars>>

\* The projection memo (useMemo): computed when a change of the scenario, the
\* decision or the simulation state has invalidated it, as
\* projectFuture({scenario, decision, state: simulationState}, months)
ProjectWith(periods, draws) ==
  /\ projection = << >>
  /\ \E months \in periods :
       \E ds \in [1 .. months -> draws] :
         \E r \in { projectFuture(scenarioPresets[ActiveKey], decision, simulation.state, months, ds) } :
          /\ projection' = << [months |-> months, points |-> r.points, final |-> r.projectionState] >>
          /\ simulation' = [simulation EXCEPT !.state = r.state]
          /\ scenarioPresets' = [scenarioPresets EXCEPT ![ActiveKey] = r.scenario]
          /\ decision' = r.decision
          /\ UNCHANGED <<scenarioKey, cycle, lastReset>>
          /\ UNCHANGED <<expenseVars, marketVars>>

\* The session: the handlers of the App, from its construction
Next ==
  \/ ApplyScenario
  \/ SetDecision
  \/ HandleRunCycle
  \/ HandleReset

Spec == Init /\ [][Next]_vars

---------------------------------------------------------------------------
(* Long lives: the App constructed from persisted state (usePersistentState
   reads the stored scenario key and decision), then run for more cycles than
   the history holds.  The random source is free in the first LongFreeMonths
   months of a life and draws no event and no noise afterwards. *)

LongMonths == 76
LongFreeMonths == 1

\* The persisted <<scenario key, decision>> pairs the long lives start from
LongStarts ==
  { <<"first_job", defaultDecision>>,
    <<"first_job", [defaultDecision EXCEPT !.lifestyle = "frugal"]>>,
    <<"first_job", [ lifestyle |-> "luxury", allocation |-> "safe", debtStrategy |-> "aggressive",
                     riskProfile |-> "aggressive", marketMode |-> "bear" ]>>,
    <<"retiree",   [ lifestyle |-> "frugal", allocation |-> "debt_crush", debtStrategy |-> "aggressive",
                     riskProfile |-> "aggressive", marketMode |-> "bull" ]>>,
    <<"family",    [ lifestyle |-> "comfort", allocation |-> "growth", debtStrategy |-> "minimum",
                     riskProfile |-> "conservative", marketMode |-> "bull" ]>>,
    <<"student",   [defaultDecision EXCEPT !.allocation = "debt_crush"]>> }

InitLong ==
  \E start \in LongStarts :
    /\ scenarioPresets = ScenarioPresetsInit
    /\ scenarioKey = start[1]
    /\ decision = start[2]
    /\ simulation = hydrateScenario(ScenarioPresetsInit, start[1])
    /\ projection = << >>
    /\ cycle = << >>
    /\ ExpensesInit
    /\ MarketAtRest
    /\ lastReset = << >>

\* handleRunCycle in a long life
RunLongCycle ==
  /\ simulation.state.month < LongMonths
  /\ RunCycleWith(IF simulation.state.month <= LongFreeMonths THEN DrawInputs ELSE {QuietDraw})

NextLong ==
  \/ RunLongCycle
  \/ HandleReset

SpecLong == InitLong /\ [][NextLong]_vars

---------------------------------------------------------------------------
(* Paying a debt off: lives whose allocation pays more than the interest, run
   by handleRunCycle alone until the debt is gone and beyond.  The first month
   and the first month without debt take every draw, the others are quiet. *)

PayoffMonths == 22

PayoffStarts ==
  { <<"retiree",    [ lifestyle |-> "frugal", allocation |-> "debt_crush", debtStrategy |-> "aggressive",
                      riskProfile |-> "aggressive", marketMode |-> "bull" ]>>,
    <<"first_job",  [ lifestyle |-> "luxury", allocation |-> "debt_crush", debtStrategy |-> "aggressive",
                      riskProfile |-> "moderate", marketMode |-> "bear" ]>>,
    <<"freelancer", defaultDecision>>,
    <<"student",    [ defaultDecision EXCEPT !.allocation = "debt_crush",
                                             !.debtStrategy = "aggressive" ]>> }

InitPayoff ==
  \E start \in PayoffStarts :
    /\ scenarioPresets = ScenarioPresetsInit
    /\ scenarioKey = start[1]
    /\ decision = start[2]
    /\ simulation = hydrateScenario(ScenarioPresetsInit, start[1])
    /\ projection = << >>
    /\ cycle = << >>
    /\ ExpensesInit
    /\ MarketAtRest
    /\ lastReset = << >>

\* The month has just become the first one without debt
FirstDebtFreeMonth ==
  /\ cycle # << >>
  /\ cycle[1].before.debtBalance > 0
  /\ simulation.state.debtBalance = 0

\* handleRunCycle in a life that pays its debt off
RunPayoffCycle ==
  /\ simulation.state.month < PayoffMonths
  /\ RunCycleWith(IF simulation.state.month = 1 \/ FirstDebtFreeMonth
                  THEN DrawInputs ELSE {QuietDraw})

NextPayoff == RunPayoffCycle

\* The user keeps running cycles
SpecPayoff == InitPayoff /\ [][NextPayoff]_vars /\ WF_vars(RunPayoffCycle)

---------------------------------------------------------------------------
(* Projections: a long life without events or noise, and the projection memo
   computed from each of its states, the fresh one and those whose history is
   full. *)

\* The randomness of the projected cycles: each event, no event, and no event
\* with the noise at its lower end
ProjectDraws == DrawsOver({0}) \cup { [QuietDraw EXCEPT !.noise = -(NOISE_SPAN \div 2)] }

\* handleRunCycle in a month without event and noise
RunQuietCycle ==
  /\ simulation.state.month < LongMonths
  /\ RunCycleWith({QuietDraw})

\* The projection memo over the periods and draws of the model
Project == ProjectWith(0 .. MaxPeriods, ProjectDraws)

NextProject ==
  \/ RunQuietCycle
  \/ Project

SpecProject == InitLong /\ [][NextProject]_vars

---------------------------------------------------------------------------
(* Successive months and their life events *)

\* The months of a life in which every life event can fire
EventMonths == 4

\* handleRunCycle, market noise left at 0
RunEventCycle ==
  /\ simulation.state.month < EventMonths
  /\ RunCycleWith(DrawsOver({0}))

NextEvents == RunEventCycle \/ HandleReset

SpecEvents == Init /\ [][NextEvents]_vars

---------------------------------------------------------------------------
(* The spending panel *)

\* The App with any life stage and an empty plan
InitExpenses ==
  /\ scenarioPresets = ScenarioPresetsInit
  /\ scenarioKey = "first_job"
  /\ decision = defaultDecision
  /\ simulation = hydrateScenario(ScenarioPresetsInit, "first_job")
  /\ projection = << >>
  /\ cycle = << >>
  /\ lifeStage \in LifeStageInputs
  /\ expensePlan = EmptyPlan
  /\ expenseCatalog = ExpenseCatalogInit
  /\ expenseBreakdown = << >>
  /\ MarketAtRest
  /\ lastReset = << >>

NextExpenses == AdjustQuantity \/ SetPriceTier \/ ResolveExpenses

SpecExpenses == InitExpenses /\ [][NextExpenses]_vars

---------------------------------------------------------------------------
(* A session that starts from a persisted decision *)

\* Keys a stored decision can name besides the catalog's: a name no object
\* has, and a name every object literal inherits
UnknownKeys == {"unlisted", "constructor"}

\* usePersistentState("nexawealth-decision", defaultDecision): what
\* JSON.parse(localStorage item) returns is the decision, whatever keys it names
StoredDecisions ==
  { [defaultDecision EXCEPT !.marketMode = m, !.riskProfile = k] :
      m \in (DOMAIN MARKET_PRESETS) \cup UnknownKeys,
      k \in (DOMAIN RISK_PRESETS) \cup UnknownKeys }

\* The App as constructed with a decision in localStorage
InitStored ==
  /\ scenarioPresets = ScenarioPresetsInit
  /\ scenarioKey = "first_job"
  /\ decision \in StoredDecisions
  /\ simulation = hydrateScenario(ScenarioPresetsInit, "first_job")
  /\ projection = << >>
  /\ cycle = << >>
  /\ ExpensesInit
  /\ MarketAtRest
  /\ lastReset = << >>

NextStored == HandleRunCycle \/ HandleReset

SpecStored == InitStored /\ [][NextStored]_vars

---------------------------------------------------------------------------
(* Claims *)

LastOf(seq) == seq[Len(seq)]

\* C1: after any sequence of cycles the state has 5 <= stressLevel <= 95 and
\* 420 <= creditScore <= 850, and so has every snapshot the cycles recorded.
C1_StressAndCreditInRange ==
  LET st == simulation.state
  IN  /\ 5 <= st.stressLevel /\ st.stressLevel <= 95
      /\ 420 <= st.creditScore /\ st.creditScore <= 850
      /\ \A i \in 1 .. Len(st.history) :
           /\ 5 <= st.history[i].stressLevel /\ st.history[i].stressLevel <= 95
           /\ 420 <= st.history[i].creditScore /\ st.history[i].creditScore <= 850

\* C1 witness: a cycle whose unclamped credit score fell below 420 and whose
\* stress level sits at the upper end of its range
C1_Witness ==
  /\ cycle # << >>
  /\ cycle[1].before.creditScore + cycle[1].locals.adjustment < 420
  /\ simulation.state.creditScore = 420
  /\ simulation.state.stressLevel = 95

\* C2: the history never holds more than 72 snapshots; after n cycles of a
\* life it holds min(n, 72); a cycle keeps the snapshots it found, in order and
\* unmodified, appends its own last and evicts only from the front.
C2_HistoryKeepsLast72 ==
  /\ [](LET st == simulation.state
        IN  /\ Len(st.history) <= 72
            /\ Len(st.history) = IF st.month - 1 <= 72 THEN st.month - 1 ELSE 72)
  /\ [][RunLongCycle =>
          LET h  == simulation.state.history
              h2 == simulation'.state.history
              evicted == Len(h) + 1 - Len(h2)
          IN  /\ evicted \in {0, 1}
              /\ evicted = 1 <=> Len(h) = 72
              /\ LastOf(h2).month = simulation.state.month
              /\ \A i \in 1 .. Len(h2) - 1 : h2[i] = h[i + evicted]]_vars

\* C2 witness: more than 72 cycles have run and the history holds 72
C2_Witness ==
  /\ simulation.state.month > 74
  /\ Len(simulation.state.history) = 72
  /\ simulation.state.history[1].month = simulation.state.month - 72

\* C3: every completed cycle increases month by exactly 1, and the snapshot it
\* appends carries the month of the state the cycle started from.
C3_MonthAdvancesByOne ==
  [][HandleRunCycle =>
       /\ simulation'.state.month = simulation.state.month + 1
       /\ LastOf(simulation'.state.history).month = simulation.state.month
       /\ LastOf(simulation'.state.history).month = simulation'.state.month - 1]_vars

\* C3 witness: the first cycle of a life has completed
C3_Witness ==
  /\ cycle # << >>
  /\ cycle[1].before.month = 1
  /\ simulation.state.month = 2
  /\ LastOf(simulation.state.history).month = 1

\* C4: projectFuture with periods = 0 returns an empty sequence and with
\* periods = N exactly N points whose months are state.month, state.month + 1,
\* ..., state.month + N - 1, also from a state whose history is full.
C4_ProjectionMonths ==
  projection # << >> =>
    LET p == projection[1]
    IN  /\ Len(p.points) = p.months
        /\ p.months = 0 => p.points = << >>
        /\ \A i \in 1 .. Len(p.points) :
             p.points[i].month = simulation.state.month + (i - 1)

\* C4 witness: a projection of at least two periods from a full history
C4_Witness ==
  /\ projection # << >>
  /\ projection[1].months >= 2
  /\ Len(projection[1].points) >= 2
  /\ Len(simulation.state.history) = 72

\* C5: a projection leaves the start state passed in (month, cash, savings,
\* investments, debt, stress, credit score, history) and the App's scenario
\* and decision exactly as they were, and every projected period is computed
\* with that same decision.  (A step that leaves a new projection in the memo
\* is a projectFuture call.)
C5_ProjectionLeavesStateAlone ==
  [][(projection' # << >> /\ projection' # projection) =>
       /\ simulation' = simulation
       /\ scenarioKey' = scenarioKey
       /\ scenarioPresets' = scenarioPresets
       /\ decision' = decision
       /\ LET p == projection'[1]
              h == p.final.history
          IN  \A i \in 1 .. p.months :
                h[Len(h) - p.months + i].decision = decision]_vars

\* C5 witness: a projection of at least one period has returned and the
\* simulation state is still the persisted one, its history full
C5_Witness ==
  /\ projection # << >>
  /\ projection[1].months >= 1
  /\ projection[1].final.month = simulation.state.month + projection[1].months
  /\ Len(simulation.state.history) = 72
  /\ simulation.state.month > 73

\* C6: running a cycle leaves the scenario profile (income, fixed costs,
\* starting amounts, debt terms) unchanged: the preset table, the active key
\* and the profile the simulation carries are the same after the cycle.
C6_CycleLeavesProfileAlone ==
  [][HandleRunCycle =>
       /\ scenarioPresets' = scenarioPresets
       /\ scenarioKey' = scenarioKey
       /\ simulation'.profile = simulation.profile
       /\ simulation'.scenarioKey = simulation.scenarioKey
       /\ simulation'.profile = scenarioPresets'[ActiveKey]]_vars

\* C6 witness: a cycle in which an event scaled the income has run and the
\* profile is the catalog's
C6_Witness ==
  /\ cycle # << >>
  /\ cycle[1].locals.income # Dollars(cycle[1].scenario.income)
  /\ simulation.profile = ScenarioPresetsInit[scenarioKey]
  /\ scenarioPresets = ScenarioPresetsInit

\* C7: after the debt update of a cycle the debt balance is >= 0 and at most
\* the prior balance plus the interest accrued in the cycle.
C7_DebtNeverNegativeNorInflated ==
  cycle # << >> =>
    /\ simulation.state.debtBalance >= 0
    /\ cycle[1].locals.debtInterest >= 0
    /\ simulation.state.debtBalance
         <= cycle[1].before.debtBalance + cycle[1].locals.debtInterest

\* C7 witness: a payment larger than balance plus interest cleared the debt
C7_Witness ==
  /\ cycle # << >>
  /\ cycle[1].before.debtBalance > 0
  /\ cycle[1].locals.debtPayment
       > cycle[1].before.debtBalance + cycle[1].locals.debtInterest
  /\ simulation.state.debtBalance = 0

RECURSIVE SumBalances(_)
SumBalances(debts) ==
  IF debts = << >> THEN 0 ELSE debts[1].balance + SumBalances(Tail(debts))

\* C8: in every reachable simulation state the state carries a Debt list and
\* debtBalance equals the sum of the balances of the debts in it.
C8_DebtBalanceIsSumOfDebts ==
  /\ "debts" \in DOMAIN simulation.state
  /\ simulation.state.debtBalance = SumBalances(simulation.state.debts)

\* C9: the missed-payment classification is decided by the amount paid toward
\* debts against the debts' minimum dues, not by cash flow: the cycle that ran
\* and the same cycle without its life event, when both pay the same amount on
\* the same debt, are classified alike.
C9_MissedDecidedByPaymentOnly ==
  cycle # << >> =>
    LET c     == cycle[1]
        quiet == CycleLocals(c.scenario, c.decision, c.before,
                             [c.draw EXCEPT !.roll = EVENT_CHANCE])
    IN  quiet.debtPayment = c.locals.debtPayment
          => quiet.missedPayment = c.locals.missedPayment

\* The adjustment the claim C10 states; totalDebt in mills.
\* utilization = totalDebt / max(totalDebt * 1.4, 1)
C10_Adjustment(missed, totalDebt) ==
  LET denominator == Max((totalDebt * 14) \div 10, Dollars(1))
  IN  IF missed THEN -20
      ELSE IF totalDebt * 10 > 6 * denominator THEN -6
      ELSE IF totalDebt * 10 < 3 * denominator THEN 6
      ELSE 2

\* C10: the credit score after a cycle is clamp(previous + adjustment, 420,
\* 850) with adjustment -20 if missed, else -6 if utilization > 0.6, else +6 if
\* utilization < 0.3, else +2.
C10_CreditScoreRule ==
  cycle # << >> =>
    simulation.state.creditScore
      = clamp(cycle[1].before.creditScore
                + C10_Adjustment(cycle[1].locals.missedPayment, simulation.state.debtBalance),
              420, 850)

\* C11: in the scenario income 5200, expenses 2100, one debt of 12000 at 12%,
\* neutral market, moderate risk, with market noise and life event forced to
\* none, one cycle leaves the credit score unchanged or raises it by 2.
C11_ScenarioCreditUnchangedOrPlus2 ==
  ( /\ cycle # << >>
    /\ cycle[1].scenario.income = 5200
    /\ cycle[1].scenario.fixedExpenses = 2100
    /\ cycle[1].scenario.debtRate = 12
    /\ cycle[1].before.debtBalance = Dollars(12000)
    /\ cycle[1].before.month = 1
    /\ cycle[1].decision.marketMode = "neutral"
    /\ cycle[1].decision.riskProfile = "moderate"
    /\ cycle[1].draw = QuietDraw )
  => simulation.state.creditScore - cycle[1].before.creditScore \in {0, 2}

\* The decision with every market or risk key the catalog lacks replaced by
\* the name of the default
NamedDefaults(dec) ==
  [dec EXCEPT !.marketMode = IF @ \in DOMAIN MARKET_PRESETS THEN @ ELSE "neutral",
              !.riskProfile = IF @ \in DOMAIN RISK_PRESETS THEN @ ELSE "moderate"]

\* C12: a cycle whose decision names a market or risk key that is not in the
\* catalog computes what the cycle with the neutral market / moderate risk
\* named explicitly computes from the same state and the same draws, and the
\* state it leaves holds those amounts.
C12_UnknownKeyRunsAsDefault ==
  (cycle # << >> /\ cycle[1].decision # NamedDefaults(cycle[1].decision)) =>
    LET c     == cycle[1]
        named == CycleLocals(c.scenario, NamedDefaults(c.decision), c.before, c.draw)
    IN  /\ \A f \in DOMAIN c.locals : c.locals[f] = named[f]
        /\ simulation.state.investments = named.nextInvestments
        /\ simulation.state.cashOnHand = named.nextCash
        /\ simulation.state.savings = named.nextSavings
        /\ simulation.state.debtBalance = named.nextDebt
        /\ simulation.state.creditScore = named.creditScore
        /\ simulation.state.stressLevel = named.stressLevel

\* C13: at most one life event fires per cycle, and an event never fires in
\* two consecutive cycles with the same key (an event is drawn from the
\* catalog without the event of the cycle before).
C13_NoImmediateRepeat ==
  /\ cycle # << >> => Len(cycle[1].locals.event) <= 1
  /\ LET h == simulation.state.history
     IN  \A i \in 2 .. Len(h) :
           h[i].event # "Quiet month" => h[i].event # h[i - 1].event

C16_PaymentCappedAtOwed ==
  cycle # << >> =>
    LET c    == cycle[1]
        owed == c.before.debtBalance + c.locals.debtInterest
        paid == Min(c.locals.debtPayment, owed)
    IN  /\ simulation.state.debtBalance >= 0
        /\ simulation.state.debtBalance = owed - paid
        /\ c.locals.outflow
             = c.locals.expenses + paid + c.locals.savingsContribution
                 + c.locals.investmentContribution
        /\ simulation.state.cashOnHand
             = c.before.cashOnHand + c.locals.cashDelta

\* C17: resolving the expenses is read-only and idempotent: a call leaves
\* the plan, the life stage and the catalog as they were, and a second call
\* on them returns the breakdown the first returned.
C17_ResolveReadOnlyIdempotent ==
  [][ResolveExpenses =>
       /\ expensePlan' = expensePlan
       /\ lifeStage' = lifeStage
       /\ expenseCatalog' = expenseCatalog
       /\ calculateExpenses(lifeStage', expensePlan'.quantities,
                            expensePlan'.priceTiers, expenseCatalog').result
            = expenseBreakdown'[1]]_vars

\* C17 witness: a plan with an owned item and an unowned one has been
\* resolved away from the mid location
C17_Witness ==
  /\ expenseBreakdown # << >>
  /\ lifeStage.location # "mid"
  /\ expenseBreakdown[1].variableTotal > 0
  /\ \E key \in DOMAIN expensePlan.quantities : expensePlan.quantities[key] = 0
  /\ Cardinality(expenseBreakdown[1].items) >= 1
  /\ expenseCatalog = ExpenseCatalogInit

\* The impact object of the event of a cycle; no event, no fields
ImpactOf(event) == IF event = << >> THEN << >> ELSE event[1].impact

\* C18: the cash update of a cycle is nextCash = cashOnHand + effective
\* income - (expenses + debt payment + savings contribution + investment
\* contribution) + the event's cashDelta, with effective income = income *
\* the event's incomeMultiplier; incomeMultiplier defaults to 1 and cashDelta
\* to 0 when no event fires or the event does not supply them.
C18_CashUpdate ==
  cycle # << >> =>
    LET c      == cycle[1]
        impact == ImpactOf(c.locals.event)
        multiplier == IF "incomeMultiplier" \in DOMAIN impact
                      THEN impact.incomeMultiplier ELSE 100
        delta  == IF "cashDelta" \in DOMAIN impact THEN impact.cashDelta ELSE 0
    IN  /\ c.locals.income * 100 = Dollars(c.scenario.income) * multiplier
        /\ simulation.state.cashOnHand
             = c.before.cashOnHand + c.locals.income
                 - (c.locals.expenses + c.locals.debtPayment
                      + c.locals.savingsContribution + c.locals.investmentContribution)
                 + Dollars(delta)

\* C18 witness: a cycle whose event supplies a cashDelta and no
\* incomeMultiplier has updated the cash
C18_Witness ==
  /\ cycle # << >>
  /\ cycle[1].locals.event # << >>
  /\ "cashDelta" \in DOMAIN ImpactOf(cycle[1].locals.event)
  /\ "incomeMultiplier" \notin DOMAIN ImpactOf(cycle[1].locals.event)
  /\ ImpactOf(cycle[1].locals.event).cashDelta < 0
  /\ simulation.state.cashOnHand # cycle[1].before.cashOnHand + cycle[1].locals.income
                                      - cycle[1].locals.outflow

\* C19: the expense total of a cycle is the total without an event plus the
\* event's fixedCostDelta (0 when no event fires or the event supplies
\* none): an event changes the expenses only by adding its fixedCostDelta.
C19_ExpensesPlusFixedCostDelta ==
  cycle # << >> =>
    LET c      == cycle[1]
        impact == ImpactOf(c.locals.event)
        delta  == IF "fixedCostDelta" \in DOMAIN impact THEN impact.fixedCostDelta ELSE 0
        quiet  == CycleLocals(c.scenario, c.decision, c.before,
                              [c.draw EXCEPT !.roll = EVENT_CHANCE])
    IN  c.locals.expenses = quiet.expenses + Dollars(delta)

\* C20: the investment update of a cycle is nextInvestments = (investments
\* + the cycle's investment contribution) * (1 + marketReturn): the
\* contribution earns the cycle's return too.
C20_InvestmentUpdate ==
  cycle # << >> =>
    LET c == cycle[1]
    IN  simulation.state.investments
          = MulDivRound(c.before.investments + c.locals.investmentContribution,
                        ReturnUnit + c.locals.marketReturn, ReturnUnit)

\* C20 witness: a contribution was made in a month with a nonzero return,
\* and adding it after the return would have given another amount
C20_Witness ==
  /\ cycle # << >>
  /\ cycle[1].locals.investmentContribution > 0
  /\ cycle[1].locals.marketReturn < 0
  /\ simulation.state.investments
       # MulDivRound(cycle[1].before.investments,
                     ReturnUnit + cycle[1].locals.marketReturn, ReturnUnit)
           + cycle[1].locals.investmentContribution

\* C21: the market return of a cycle is the climate's base return times the
\* risk multiplier plus a bounded noise: it never lies more than 0.006 from
\* baseReturn * riskMultiplier (no event of the catalog supplies a shock).
C21_MarketReturnNoiseBounded ==
  cycle # << >> =>
    LET c      == cycle[1]
        base   == MARKET_PRESETS[c.decision.marketMode].baseReturn
        factor == RISK_PRESETS[c.decision.riskProfile].riskMultiplier
        noise  == c.locals.marketReturn - (base * factor) \div 100
    IN  /\ noise = c.draw.noise
        /\ -60 <= noise /\ noise <= 60

\* C21 witness: a bear market under aggressive risk with the noise at its
\* lower end
C21_Witness ==
  /\ cycle # << >>
  /\ cycle[1].decision.marketMode = "bear"
  /\ cycle[1].decision.riskProfile = "aggressive"
  /\ cycle[1].locals.marketReturn = -112 - 50

\* C22: the net worth of a cycle is cash + savings + investments - debt taken
\* from the values after the cycle's updates, and the snapshot records the net
\* worth, cash, savings, investments and debt of the new state, each rounded to
\* the nearest whole dollar.
C22_SnapshotRoundsPostUpdateValues ==
  cycle # << >> =>
    LET s    == simulation.state
        snap == LastOf(s.history)
        sum  == IF s.investments = NaN THEN NaN
                ELSE s.cashOnHand + s.savings + s.investments - s.debtBalance
    IN  /\ cycle[1].locals.netWorth = sum
        /\ snap.netWorth    = RoundDollars(sum)
        /\ snap.cashOnHand  = RoundDollars(s.cashOnHand)
        /\ snap.savings     = RoundDollars(s.savings)
        /\ snap.investments = RoundDollars(s.investments)
        /\ snap.debtBalance = RoundDollars(s.debtBalance)

\* C22 witness: a cycle changed cash, savings, investments and debt, and left a
\* debt that is not a whole number of dollars
C22_Witness ==
  /\ cycle # << >>
  /\ cycle[1].before.cashOnHand # simulation.state.cashOnHand
  /\ cycle[1].before.savings # simulation.state.savings
  /\ cycle[1].before.investments # simulation.state.investments
  /\ cycle[1].before.debtBalance # simulation.state.debtBalance
  /\ simulation.state.debtBalance % Scale # 0
  /\ LastOf(simulation.state.history).debtBalance
       = RoundDollars(simulation.state.debtBalance)

\* C22 as stated: the snapshot holds the post-update values themselves
C22_SnapshotHoldsExactValues ==
  cycle # << >> =>
    LET s    == simulation.state
        snap == LastOf(s.history)
    IN  /\ Dollars(snap.netWorth)
             = s.cashOnHand + s.savings + s.investments - s.debtBalance
        /\ Dollars(snap.cashOnHand)  = s.cashOnHand
        /\ Dollars(snap.savings)     = s.savings
        /\ Dollars(snap.investments) = s.investments
        /\ Dollars(snap.debtBalance) = s.debtBalance

\* The stress level as the specification writes it: base 62, debt weight 28,
\* no lifestyle term; computed in the arithmetic of computeStress
StressAsStated(cashOnHand, debtBalance, expenses) ==
  LET safetyBuffer == Ratio(cashOnHand, Max(expenses, Dollars(1)))
      debtLoad     == debtBalance \div ((STRESS_DEBT_SCALE * Scale) \div RatioUnit)
      raw == (STRESS_BASE + 2) * RatioUnit - safetyBuffer * STRESS_BUFFER_WEIGHT
             + debtLoad * (STRESS_DEBT_WEIGHT + 2)
  IN  clamp((raw + (RatioUnit \div 2)) \div RatioUnit, STRESS_MIN, STRESS_MAX)

\* C23: the stress level after a cycle is
\* clamp(round(62 - (nextCash / max(expenses, 1)) * 18 + (debt / 25000) * 28), 5, 95),
\* a function of the post-cycle cash, the cycle's expenses and the post-cycle
\* debt only.
C23_StressFormula ==
  cycle # << >> =>
    simulation.state.stressLevel
      = StressAsStated(simulation.state.cashOnHand, simulation.state.debtBalance,
                       cycle[1].locals.expenses)

\* C24: in every state reached from month 1 with an empty history, the months
\* of the snapshots in the history are consecutive, the last one is
\* state.month - 1, and the history holds min(state.month - 1, 72) snapshots.
C24_HistoryMonthsConsecutive ==
  LET h == simulation.state.history
      m == simulation.state.month
  IN  /\ Len(h) = Min(m - 1, HISTORY_CAP)
      /\ h # << >> => LastOf(h).month = m - 1
      /\ \A i \in 1 .. Len(h) - 1 : h[i + 1].month = h[i].month + 1

\* C24 witness: a life long enough that the oldest snapshots have been evicted
C24_Witness ==
  /\ simulation.state.month = HISTORY_CAP + 3
  /\ Len(simulation.state.history) = HISTORY_CAP
  /\ simulation.state.history[1].month = 3
  /\ LastOf(simulation.state.history).month = HISTORY_CAP + 2

\* C25: being debt-free is absorbing: a cycle run from a state without debt
\* leaves the debt at 0, whatever the decision, the event and the market
\* return, also when the cash is negative.
C25_DebtFreeIsAbsorbing ==
  [][(simulation.state.debtBalance = 0
        /\ simulation'.state.month = simulation.state.month + 1)
       => simulation'.state.debtBalance = 0]_vars

\* C25 witness: a cycle with a positive payment and an event ran from a state
\* without debt and with negative cash, and the debt is still 0
C25_Witness ==
  /\ cycle # << >>
  /\ cycle[1].before.debtBalance = 0
  /\ cycle[1].before.cashOnHand < 0
  /\ cycle[1].locals.debtPayment > 0
  /\ cycle[1].locals.event # << >>
  /\ simulation.state.debtBalance = 0

\* C26: a cycle whose payment exceeds the interest accrued on a positive debt
\* strictly decreases the debt, and a life in which every cycle pays more than
\* the interest reaches a debt of 0.
C26_DebtPaidOff ==
  /\ [][(simulation'.state.month = simulation.state.month + 1
           /\ simulation.state.debtBalance > 0
           /\ cycle'[1].locals.debtPayment > cycle'[1].locals.debtInterest)
          => simulation'.state.debtBalance < simulation.state.debtBalance]_vars
  /\ <>(\/ simulation.state.debtBalance = 0
        \/ /\ cycle # << >>
           /\ cycle[1].locals.debtPayment <= cycle[1].locals.debtInterest)

\* C26 witness: the debt fell in each of several cycles and the last one
\* brought it to 0
C26_Witness ==
  /\ cycle # << >>
  /\ simulation.state.debtBalance = 0
  /\ cycle[1].before.debtBalance > 0
  /\ cycle[1].locals.debtPayment > cycle[1].locals.debtInterest
  /\ cycle[1].locals.debtInterest > 0
  /\ Len(simulation.state.history) >= 4
  /\ \A i \in 1 .. Len(simulation.state.history) - 1 :
        simulation.state.history[i + 1].debtBalance
          < simulation.state.history[i].debtBalance

\* C27: after a reset, whatever cycles ran before, the simulation state is the
\* initial state of the current scenario: month 1, an empty history, stress 35,
\* credit score 690 and the scenario's starting cash, savings, investments and
\* debt; the reset leaves the scenario as it is.
C27_ResetRestoresInitialState ==
  /\ [](lastReset # << >> =>
          LET scenario == scenarioPresets[scenarioKey]
          IN  simulation.state =
                [ month |-> 1,
                  cashOnHand |-> Dollars(scenario.startingCash),
                  savings |-> Dollars(scenario.startingSavings),
                  investments |-> Dollars(scenario.startingInvestments),
                  debtBalance |-> Dollars(scenario.debtBalance),
                  stressLevel |-> 35,
                  creditScore |-> 690,
                  history |-> << >> ])
  /\ [][lastReset' # << >> =>
          /\ scenarioKey' = scenarioKey
          /\ scenarioPresets' = scenarioPresets
          /\ simulation'.scenarioKey = scenarioKey
          /\ simulation'.profile = scenarioPresets[scenarioKey]]_vars

\* C27 witness: a reset has just undone a life of cycles
C27_Witness ==
  /\ lastReset # << >>
  /\ lastReset[1].ranCycles
  /\ scenarioKey = "retiree"
  /\ simulation.state.month = 1
  /\ simulation.state.history = << >>
  /\ simulation.state.debtBalance = Dollars(2000)

\* The step is a call of the buy or the sell handler
MarketCall == marketTrades'.calls = marketTrades.calls + 1

\* The step leaves the cash, the inventory and the holdings as they are
PositionUnchanged ==
  /\ marketExplorer'.cash = marketExplorer.cash
  /\ marketExplorer'.inventory = marketExplorer.inventory
  /\ marketExplorer'.holdings = marketExplorer.holdings

\* C28: in the Market Explorer the cash is never negative, from the initial
\* 8000 on through any switches, quantity changes, buys, sells and days: a buy
\* that goes through costs no more than the cash and takes its cost from it,
\* and a blocked buy is one whose cost exceeds the cash and leaves the cash,
\* the inventory and the holdings unchanged.
C28_CashNeverNegative ==
  /\ [](marketExplorer.cash >= 0)
  /\ [][(MarketCall /\ marketExplorer'.lastInsight = "Not enough cash") =>
          /\ PositionUnchanged
          /\ \E itemKey \in MarketItemKeys(marketExplorer.marketKey) :
                OrElse(marketExplorer.quantities, itemKey, 1)
                  * marketExplorer.prices[marketExplorer.marketKey][itemKey]
                  > marketExplorer.cash]_vars
  /\ [][(MarketCall /\ marketExplorer'.lastInsight = "Bought") =>
          \E itemKey \in MarketItemKeys(marketExplorer.marketKey) :
            LET cost == OrElse(marketExplorer.quantities, itemKey, 1)
                          * marketExplorer.prices[marketExplorer.marketKey][itemKey]
            IN  /\ cost <= marketExplorer.cash
                /\ marketExplorer'.cash = marketExplorer.cash - cost]_vars

\* C28 witness: after a purchase of eight city plots a second one has been
\* blocked for lack of cash
C28_Witness ==
  /\ marketExplorer.lastInsight = "Not enough cash"
  /\ marketExplorer.marketKey = "real_estate"
  /\ OrElse(marketExplorer.holdings, "city_plot", 0) = 8
  /\ marketExplorer.cash < 8 * marketExplorer.prices["real_estate"]["city_plot"]
  /\ marketExplorer.cash > 0
  /\ marketTrades.bought["city_plot"] = 8

\* C29: in the Market Explorer no inventory or holdings count is negative, no
\* quantity selector is negative, and the units sold of an item never exceed
\* the units bought of it; a blocked sell is one of more units than are
\* available and leaves the cash, the inventory and the holdings unchanged; a
\* buy or sell of an item whose selector is at 0 trades exactly 1 unit.
C29_StockNeverNegative ==
  /\ [](/\ \A itemKey \in DOMAIN marketExplorer.inventory :
             marketExplorer.inventory[itemKey] >= 0
        /\ \A itemKey \in DOMAIN marketExplorer.holdings :
             marketExplorer.holdings[itemKey] >= 0
        /\ \A itemKey \in DOMAIN marketExplorer.quantities :
             marketExplorer.quantities[itemKey] >= 0
        /\ \A itemKey \in AllMarketItemKeys :
             /\ marketTrades.sold[itemKey] <= marketTrades.bought[itemKey]
             /\ marketTrades.sold[itemKey] >= 0)
  /\ [][(MarketCall /\ marketExplorer'.lastInsight = "You only have") =>
          /\ PositionUnchanged
          /\ \E itemKey \in MarketItemKeys(marketExplorer.marketKey) :
                OrElse(marketExplorer.quantities, itemKey, 1)
                  > UnitsOf(marketExplorer, itemKey)]_vars
  /\ [][(MarketCall /\ marketExplorer'.lastInsight \in {"Bought", "Sold"}) =>
          \E itemKey \in MarketItemKeys(marketExplorer.marketKey) :
            LET traded == UnitsOf(marketExplorer', itemKey) - UnitsOf(marketExplorer, itemKey)
            IN  /\ traded # 0
                /\ Get(marketExplorer.quantities, itemKey, 0) = 0
                     => traded \in {-1, 1}]_vars

\* C29 witness: with its selector brought to 0 one city plot has been bought,
\* and a sell of rice, of which there is none, has been blocked
C29_Witness ==
  /\ marketExplorer.lastInsight = "You only have"
  /\ "city_plot" \in DOMAIN marketExplorer.quantities
  /\ marketExplorer.quantities["city_plot"] = 0
  /\ OrElse(marketExplorer.holdings, "city_plot", 0) = 1
  /\ marketTrades.bought["city_plot"] = 1
  /\ UnitsOf(marketExplorer, "rice_bulk") = 0
  /\ marketTrades.bought["rice_bulk"] = 0

\* C30: in the Market Explorer every price lies within [0.6 * base, 1.6 * base]
\* and every trend within [-0.12, 0.12], initially and after any number of
\* days; a next-day step increases the day by exactly 1 and leaves the cash,
\* the inventory and the holdings unchanged; a buy or a sell leaves the day,
\* the prices and the trends unchanged.
C30_PricesAndTrendsBounded ==
  /\ [](\A marketKey \in MarketKeys :
          \A itemKey \in MarketItemKeys(marketKey) :
            LET base  == getMarketItem(marketKey, itemKey).base
                price == marketExplorer.prices[marketKey][itemKey]
                trend == marketExplorer.trends[marketKey][itemKey]
            IN  /\ 60 * base <= price /\ price <= 160 * base
                /\ -1200 <= trend /\ trend <= 1200)
  /\ [][marketExplorer'.day # marketExplorer.day =>
          /\ marketExplorer'.day = marketExplorer.day + 1
          /\ PositionUnchanged]_vars
  /\ [][MarketCall =>
          /\ marketExplorer'.day = marketExplorer.day
          /\ marketExplorer'.prices = marketExplorer.prices
          /\ marketExplorer'.trends = marketExplorer.trends]_vars

\* C30 witness: days of rising prices have brought the city plot, of which one
\* was bought on the way, to 1.6 times its base and its trend to 0.12
C30_Witness ==
  /\ marketExplorer.prices["real_estate"]["city_plot"] = 160 * 520
  /\ marketExplorer.trends["real_estate"]["city_plot"] = 1200
  /\ OrElse(marketExplorer.holdings, "city_plot", 0) = 1
  /\ marketExplorer.cash < MARKET_CASH * CentsPerDollar
  /\ marketExplorer.day > 8

============================================================================
